---- MODULE Spec2Model ----
(***************************************************************************)
(* Model of src/stream.js: streamMicrophone(callback, options), the         *)
(* AudioCaptureProcessor worklet it registers, the message handler that     *)
(* forwards frames to the callback, and the stop function it returns.       *)
(*                                                                          *)
(* One session is one call of streamMicrophone.  Every variable is a        *)
(* function over Sessions, because everything the call creates is local to  *)
(* that call.                                                               *)
(***************************************************************************)
EXTENDS Integers, Sequences, FiniteSets, TLC

\* ------------------------------------------------------------------ bounds
MaxBlock == 5      \* longest input block (samples of channel 0) in one process call
MaxBlocks == 4     \* process calls with a connected input, per session
MaxSamples == 8    \* samples received in total, per session
MaxStops == 2      \* calls of the stop function, per session
MaxIdle == 1       \* process calls with no connected input, per session
SmallSamples == 4  \* samples received in total, per session, in SpecTwo and SpecWire
SmallStops == 1    \* calls of each stop function, in SpecTwo and SpecWire

\* ------------------------------------------------------- program constants
DefaultBufferSize == 4096    \* options.bufferSize || 4096

\* --------------------------------------------------------------- input sets
Sessions == {1, 2}

\* values of options.bufferSize the caller passes (the field may also be absent)
BufferSizeValues == {-1, 0, 1, 2, 3, 7}

\* the options object: each field is present or absent
OptionsSet ==
    [bufferSize : BufferSizeValues, fromDisplay : {TRUE}]
        \cup [bufferSize : BufferSizeValues]
        \cup [fromDisplay : {TRUE}]
        \cup {[k \in {} |-> 0]}

\* audioContext.sampleRate, chosen by the host
SampleRates == {48000}

VARIABLES
    pc,            \* position of the streamMicrophone call of each session
    options,       \* the options argument
    bufferSize,    \* const bufferSize (also processorOptions.bufferSize, this.bufferSize)
    from_display,  \* const from_display
    stream,        \* the MediaStream: [tracks, audio]
    audioContext,  \* "none" | "running" | "closing" | "closed"
    sampleRate,    \* audioContext.sampleRate, baked into the worklet code
    workletUrl,    \* "none" | "created" | "revoked"
    workletNode,   \* [made, out, onmessage]: constructed, connected to destination, handler set
    source,        \* [made, out]: MediaStreamSource constructed, connected to the worklet node
    buffer,        \* this.buffer of the AudioCaptureProcessor
    port,          \* messages posted by the processor, not yet dispatched to onmessage
    sink,          \* arguments of every callback invocation so far, in order
    blocks,        \* every input block the processor received so far, in order
    posted,        \* every message the processor posted so far, in order
    idle,          \* count of process calls that saw no input channel
    released,      \* release operations performed so far, in order
    stops,         \* count of stop calls that returned
    result         \* outcome of the promise: "pending" | "resolved" | an error name

vars == <<pc, options, bufferSize, from_display, stream, audioContext, sampleRate,
          workletUrl, workletNode, source, buffer, port, sink, blocks, posted,
          idle, released, stops, result>>

mainVars == <<pc, options, bufferSize, from_display, stream, audioContext, sampleRate,
              workletUrl, workletNode, source, released, stops, result>>

\* ----------------------------------------------------------- JS primitives

\* a || b for a numeric option: undefined, NaN and 0 are falsy
OrDefault(obj, key, default) ==
    IF key \in DOMAIN obj /\ obj[key] # 0 THEN obj[key] ELSE default

\* a || false for a boolean option
OrFalse(obj, key) ==
    IF key \in DOMAIN obj THEN obj[key] ELSE FALSE

Min(a, b) == IF a < b THEN a ELSE b
Max(a, b) == IF a > b THEN a ELSE b

\* relative index of Array.prototype.slice: negative counts from the end, clamped
RelIndex(len, i) == IF i < 0 THEN Max(len + i, 0) ELSE Min(i, len)

\* Array.prototype.slice(start, end), on 1-based sequences
slice(arr, start, end) ==
    SubSeq(arr, RelIndex(Len(arr), start) + 1, RelIndex(Len(arr), end))

\* Array.prototype.slice(start)
sliceFrom(arr, start) == slice(arr, start, Len(arr))

\* concatenation of a sequence of sequences
RECURSIVE Flatten(_)
Flatten(ss) == IF ss = <<>> THEN <<>> ELSE Head(ss) \o Flatten(Tail(ss))

\* Math.fround on an integer: float32 keeps 24 significant bits, ties to even
RECURSIVE Ulp(_, _)
Ulp(mag, unit) == IF mag < 16777216 * unit THEN unit ELSE Ulp(mag, 2 * unit)

fround(x) ==
    LET mag == IF x < 0 THEN -x ELSE x
        sgn == IF x < 0 THEN -1 ELSE 1
        u == Ulp(mag, 1)
        lo == (mag \div u) * u
        rest == mag - lo
        up == \/ 2 * rest > u
              \/ 2 * rest = u /\ (lo \div u) % 2 = 1
    IN  sgn * (IF up THEN lo + u ELSE lo)

\* new Float32Array(array): same length, every element rounded to float32
Float32Array(arr) == [i \in 1..Len(arr) |-> fround(arr[i])]

\* ------------------------------------------------- AudioCaptureProcessor

\* a strict comparison in place of >=
enough_strict(acc, size) == Len(acc) > size

\* this.buffer.length >= this.bufferSize
enough(acc, size) == Len(acc) >= size

\* the whole buffer posted in place of its first bufferSize samples
frameOf_whole(acc, size) == acc

\* this.buffer.slice(0, this.bufferSize): the samples of the posted message
frameOf(acc, size) == slice(acc, 0, size)

\* the overflow cut one sample early: the last sample of the frame is kept too
overflowOf_keepLast(acc, size) == sliceFrom(acc, size - 1)

\* the buffer emptied after a post in place of keeping the overflow
overflowOf_drop(acc, size) == <<>>

\* this.buffer.slice(this.bufferSize): the overflow kept for the next chunk
overflowOf(acc, size) == sliceFrom(acc, size)

\* process(inputs, outputs, parameters): the buffer it leaves and the messages
\* it posts, given this.buffer, this.bufferSize and this.sampleRate
process(buf, size, rate, inputs) ==
    LET input == inputs[1]
    IN  IF Len(input) > 0
        THEN LET samples == input[1]
                 acc == buf \o samples
             IN  IF enough(acc, size)
                 THEN [buffer |-> overflowOf(acc, size),
                       messages |-> << [samples |-> frameOf(acc, size),
                                        sampleRate |-> rate] >>]
                 ELSE [buffer |-> acc, messages |-> <<>>]
        ELSE [buffer |-> buf, messages |-> <<>>]

\* workletNode.port.onmessage: the argument the callback is called with
onmessage(data) ==
    [samples |-> Float32Array(data.samples),
     sampleRate |-> data.sampleRate,
     bufferLength |-> Len(data.samples)]

\* inputs of one process call: input 0 carries channel 0 of the source while the
\* source is connected to the node, and has no channel otherwise
inputsOf(connected, samples) ==
    IF connected THEN << <<samples>> >> ELSE << <<>> >>

\* each session captures its own signal: the sample values of two sessions
\* never coincide
signalOf(s) == (s - 1) * 1000

\* the n samples that follow the `first` samples already captured; every sample
\* of the captured signal is distinct
Block(first, n) == [i \in 1..n |-> first + i]

\* ------------------------------------------------------------------- stop

\* the tracks stopped first in place of last
stopSteps_tracksFirst ==
    << "track.stop", "workletNode.disconnect", "source.disconnect",
       "audioContext.close", "URL.revokeObjectURL" >>

\* the release calls of stop(), in program order
stopSteps ==
    << "workletNode.disconnect", "source.disconnect", "audioContext.close",
       "URL.revokeObjectURL", "track.stop" >>

Range(f) == {f[i] : i \in DOMAIN f}

\* a stop that leaves the source connected to the node
afterStop_sourceKept(steps, call, before, after) ==
    IF call \in Range(steps) /\ call # "source.disconnect" THEN after ELSE before

\* the state a resource is left in by the release calls `steps`
afterStop(steps, call, before, after) ==
    IF call \in Range(steps) THEN after ELSE before

\* ------------------------------------------------------------------- state

NoStream == [tracks |-> "none", audio |-> FALSE]
NoNode == [made |-> FALSE, out |-> FALSE, onmessage |-> FALSE]
NoSource == [made |-> FALSE, out |-> FALSE]

\* the caller makes the calls `calls`; the other sessions never start
InitWith(calls) ==
    /\ pc = [s \in Sessions |-> IF s \in calls THEN "idle" ELSE "unused"]
    /\ options = [s \in Sessions |-> [k \in {} |-> 0]]
    /\ bufferSize = [s \in Sessions |-> DefaultBufferSize]
    /\ from_display = [s \in Sessions |-> FALSE]
    /\ stream = [s \in Sessions |-> NoStream]
    /\ audioContext = [s \in Sessions |-> "none"]
    /\ sampleRate = [s \in Sessions |-> 0]
    /\ workletUrl = [s \in Sessions |-> "none"]
    /\ workletNode = [s \in Sessions |-> NoNode]
    /\ source = [s \in Sessions |-> NoSource]
    /\ buffer = [s \in Sessions |-> <<>>]
    /\ port = [s \in Sessions |-> <<>>]
    /\ sink = [s \in Sessions |-> <<>>]
    /\ blocks = [s \in Sessions |-> <<>>]
    /\ posted = [s \in Sessions |-> <<>>]
    /\ idle = [s \in Sessions |-> 0]
    /\ released = [s \in Sessions |-> <<>>]
    /\ stops = [s \in Sessions |-> 0]
    /\ result = [s \in Sessions |-> "pending"]

Init == InitWith({1})

\* ----------------------------------------------------------------- actions

\* streamMicrophone(callback, options) up to the first await
Start(s, o) ==
    /\ pc[s] = "idle"
    /\ options' = [options EXCEPT ![s] = o]
    /\ bufferSize' = [bufferSize EXCEPT ![s] = OrDefault(o, "bufferSize", DefaultBufferSize)]
    /\ from_display' = [from_display EXCEPT ![s] = OrFalse(o, "fromDisplay")]
    /\ pc' = [pc EXCEPT ![s] = "getMedia"]
    /\ UNCHANGED <<stream, audioContext, sampleRate, workletUrl, workletNode, source,
                   buffer, port, sink, blocks, posted, idle, released, stops, result>>

\* the rejection caught and swallowed: the call goes on to create the audio
\* context and the blob URL
GetMediaRejected_swallowed(s, err) ==
    /\ pc[s] = "getMedia"
    /\ audioContext' = [audioContext EXCEPT ![s] = "running"]
    /\ workletUrl' = [workletUrl EXCEPT ![s] = "created"]
    /\ pc' = [pc EXCEPT ![s] = "failed"]
    /\ result' = [result EXCEPT ![s] = err]
    /\ UNCHANGED <<options, bufferSize, from_display, stream, sampleRate,
                   workletNode, source, buffer, port, sink, blocks, posted,
                   idle, released, stops>>

\* getDisplayMedia / getUserMedia rejects: the call rejects with the same error
GetMediaRejected(s, err) ==
    /\ pc[s] = "getMedia"
    /\ pc' = [pc EXCEPT ![s] = "failed"]
    /\ result' = [result EXCEPT ![s] = err]
    /\ UNCHANGED <<options, bufferSize, from_display, stream, audioContext, sampleRate,
                   workletUrl, workletNode, source, buffer, port, sink, blocks, posted,
                   idle, released, stops>>

\* the stream is granted; the call creates the audio context and the blob URL
\* and awaits addModule.  A display stream may come without an audio track.
GetMediaResolved(s, audio, rate) ==
    /\ pc[s] = "getMedia"
    /\ audio \/ from_display[s]
    /\ stream' = [stream EXCEPT ![s] = [tracks |-> "live", audio |-> audio]]
    /\ audioContext' = [audioContext EXCEPT ![s] = "running"]
    /\ sampleRate' = [sampleRate EXCEPT ![s] = rate]
    /\ workletUrl' = [workletUrl EXCEPT ![s] = "created"]
    /\ pc' = [pc EXCEPT ![s] = "addModule"]
    /\ UNCHANGED <<options, bufferSize, from_display, workletNode, source, buffer, port,
                   sink, blocks, posted, idle, released, stops, result>>

\* addModule rejects: the call rejects, nothing is released
AddModuleRejected(s) ==
    /\ pc[s] = "addModule"
    /\ pc' = [pc EXCEPT ![s] = "failed"]
    /\ result' = [result EXCEPT ![s] = "AbortError"]
    /\ UNCHANGED <<options, bufferSize, from_display, stream, audioContext, sampleRate,
                   workletUrl, workletNode, source, buffer, port, sink, blocks, posted,
                   idle, released, stops>>

\* a source creation that accepts a stream without an audio track: the call
\* returns a stop function whatever the stream holds
AddModuleResolved_noThrow(s) ==
    /\ pc[s] = "addModule"
    /\ workletNode' = [workletNode EXCEPT
                         ![s] = [made |-> TRUE, out |-> TRUE, onmessage |-> TRUE]]
    /\ source' = [source EXCEPT ![s] = [made |-> TRUE, out |-> TRUE]]
    /\ pc' = [pc EXCEPT ![s] = "returned"]
    /\ result' = [result EXCEPT ![s] = "resolved"]
    /\ UNCHANGED <<options, bufferSize, from_display, stream, audioContext, sampleRate,
                   workletUrl, buffer, port, sink, blocks, posted, idle, released, stops>>

\* addModule resolves: the node is constructed, the handler is set, the source
\* is created and the graph is wired; createMediaStreamSource throws on a
\* stream without an audio track
AddModuleResolved(s) ==
    /\ pc[s] = "addModule"
    /\ IF stream[s].audio
       THEN /\ workletNode' = [workletNode EXCEPT
                                 ![s] = [made |-> TRUE, out |-> TRUE, onmessage |-> TRUE]]
            /\ source' = [source EXCEPT ![s] = [made |-> TRUE, out |-> TRUE]]
            /\ pc' = [pc EXCEPT ![s] = "returned"]
            /\ result' = [result EXCEPT ![s] = "resolved"]
       ELSE /\ workletNode' = [workletNode EXCEPT
                                 ![s] = [made |-> TRUE, out |-> FALSE, onmessage |-> TRUE]]
            /\ source' = source
            /\ pc' = [pc EXCEPT ![s] = "failed"]
            /\ result' = [result EXCEPT ![s] = "InvalidStateError"]
    /\ UNCHANGED <<options, bufferSize, from_display, stream, audioContext, sampleRate,
                   workletUrl, buffer, port, sink, blocks, posted, idle, released, stops>>

\* one call of AudioCaptureProcessor.process on the rendering thread
Process(s, n) ==
    /\ workletNode[s].made
    /\ audioContext[s] \in {"running", "closing"}
    /\ LET first == Len(Flatten(blocks[s]))
           samples == Block(signalOf(s) + first, n)
           r == process(buffer[s], bufferSize[s], sampleRate[s],
                        inputsOf(source[s].out, samples))
       IN  /\ IF source[s].out
              THEN /\ Len(blocks[s]) < MaxBlocks
                   /\ first + n <= MaxSamples
                   /\ blocks' = [blocks EXCEPT ![s] = Append(@, samples)]
                   /\ idle' = idle
              ELSE /\ n = 0
                   /\ idle[s] < MaxIdle
                   /\ blocks' = blocks
                   /\ idle' = [idle EXCEPT ![s] = @ + 1]
           /\ buffer' = [buffer EXCEPT ![s] = r.buffer]
           /\ port' = [port EXCEPT ![s] = @ \o r.messages]
           /\ posted' = [posted EXCEPT ![s] = @ \o r.messages]
    /\ UNCHANGED <<mainVars, sink>>

\* a dispatch that takes the newest posted message in place of the oldest
Deliver_newestFirst(s) ==
    /\ port[s] # <<>>
    /\ workletNode[s].onmessage
    /\ sink' = [sink EXCEPT ![s] = Append(@, onmessage(port[s][Len(port[s])]))]
    /\ port' = [port EXCEPT ![s] = SubSeq(@, 1, Len(@) - 1)]
    /\ UNCHANGED <<mainVars, buffer, blocks, posted, idle>>

\* the main thread dispatches the oldest posted message to port.onmessage
Deliver(s) ==
    /\ port[s] # <<>>
    /\ workletNode[s].onmessage
    /\ sink' = [sink EXCEPT ![s] = Append(@, onmessage(Head(port[s])))]
    /\ port' = [port EXCEPT ![s] = Tail(@)]
    /\ UNCHANGED <<mainVars, buffer, blocks, posted, idle>>

\* a stop that closes one audio context shared by every session
Stop_sharedContext(s) ==
    /\ pc[s] = "returned"
    /\ stops[s] < MaxStops
    /\ workletNode' = [workletNode EXCEPT ![s].out = FALSE]
    /\ source' = [source EXCEPT ![s].out = FALSE]
    /\ audioContext' = [t \in Sessions |->
                          IF audioContext[t] = "running" THEN "closing" ELSE audioContext[t]]
    /\ workletUrl' = [workletUrl EXCEPT ![s] = "revoked"]
    /\ stream' = [stream EXCEPT ![s].tracks = "ended"]
    /\ released' = [released EXCEPT ![s] = @ \o stopSteps]
    /\ stops' = [stops EXCEPT ![s] = @ + 1]
    /\ UNCHANGED <<pc, options, bufferSize, from_display, sampleRate, buffer, port, sink,
                   blocks, posted, idle, result>>

\* the returned stop function, called by the caller
Stop(s) ==
    /\ pc[s] = "returned"
    /\ stops[s] < MaxStops
    /\ workletNode' = [workletNode EXCEPT
                         ![s].out = afterStop(stopSteps, "workletNode.disconnect", @, FALSE)]
    /\ source' = [source EXCEPT
                    ![s].out = afterStop(stopSteps, "source.disconnect", @, FALSE)]
    /\ audioContext' = [audioContext EXCEPT
                          ![s] = afterStop(stopSteps, "audioContext.close", @,
                                           IF @ = "running" THEN "closing" ELSE @)]
    /\ workletUrl' = [workletUrl EXCEPT
                        ![s] = afterStop(stopSteps, "URL.revokeObjectURL", @, "revoked")]
    /\ stream' = [stream EXCEPT
                    ![s].tracks = afterStop(stopSteps, "track.stop", @, "ended")]
    /\ released' = [released EXCEPT ![s] = @ \o stopSteps]
    /\ stops' = [stops EXCEPT ![s] = @ + 1]
    /\ UNCHANGED <<pc, options, bufferSize, from_display, sampleRate, buffer, port, sink,
                   blocks, posted, idle, result>>

\* the rendering thread handles the close message: rendering ends
ContextClosed(s) ==
    /\ audioContext[s] = "closing"
    /\ audioContext' = [audioContext EXCEPT ![s] = "closed"]
    /\ UNCHANGED <<pc, options, bufferSize, from_display, stream, sampleRate, workletUrl,
                   workletNode, source, buffer, port, sink, blocks, posted, idle,
                   released, stops, result>>

Next ==
    \E s \in Sessions :
        \/ \E o \in OptionsSet : Start(s, o)
        \/ \E err \in {"NotAllowedError", "NotFoundError"} : GetMediaRejected(s, err)
        \/ \E audio \in BOOLEAN, rate \in SampleRates : GetMediaResolved(s, audio, rate)
        \/ AddModuleRejected(s)
        \/ AddModuleResolved(s)
        \/ \E n \in 0..MaxBlock : Process(s, n)
        \/ Deliver(s)
        \/ Stop(s)
        \/ ContextClosed(s)

Spec == Init /\ [][Next]_vars

\* ------------------------------------------------- two concurrent sessions

\* the options of the calls when two sessions run
TwoOptions == {[bufferSize |-> 1], [bufferSize |-> 2]}

\* the block lengths in SpecTwo and SpecWire
SmallLens == {1, 2}

\* the caller makes two calls of streamMicrophone
InitTwo == InitWith(Sessions)

\* the same steps as Next, for either session, on smaller inputs
NextTwo ==
    \E s \in Sessions :
        \/ \E o \in TwoOptions : Start(s, o)
        \/ GetMediaRejected(s, "NotAllowedError")
        \/ \E rate \in SampleRates : GetMediaResolved(s, TRUE, rate)
        \/ AddModuleRejected(s)
        \/ AddModuleResolved(s)
        \/ \E n \in SmallLens :
               /\ source[s].out
               /\ Len(Flatten(blocks[s])) + n <= SmallSamples
               /\ Process(s, n)
        \/ Deliver(s)
        \/ stops[s] < SmallStops /\ Stop(s)
        \/ ContextClosed(s)

SpecTwo == InitTwo /\ [][NextTwo]_vars

\* ------------------------------------ the wiring of the graph, step by step

\* the source connected before the message handler is set
wireSteps_connectFirst ==
    << "new AudioWorkletNode", "createMediaStreamSource", "source.connect",
       "workletNode.connect", "port.onmessage" >>

\* the statements that follow await addModule, in program order
wireSteps ==
    << "new AudioWorkletNode", "port.onmessage", "createMediaStreamSource",
       "source.connect", "workletNode.connect" >>

\* whether session s has executed the statement
wired(s, step) ==
    CASE step = "new AudioWorkletNode" -> workletNode[s].made
      [] step = "port.onmessage" -> workletNode[s].onmessage
      [] step = "createMediaStreamSource" -> source[s].made
      [] step = "source.connect" -> source[s].out
      [] step = "workletNode.connect" -> workletNode[s].out

\* the statements session s has still to execute
toWire(s) == SelectSeq(wireSteps, LAMBDA step : ~wired(s, step))

\* addModule resolves and the call resumes
ModuleAdded(s) ==
    /\ pc[s] = "addModule"
    /\ pc' = [pc EXCEPT ![s] = "wiring"]
    /\ UNCHANGED <<options, bufferSize, from_display, stream, audioContext, sampleRate,
                   workletUrl, workletNode, source, buffer, port, sink, blocks, posted,
                   idle, released, stops, result>>

\* the call executes its next statement; createMediaStreamSource throws on a
\* stream without an audio track, and after the last statement the call returns
\* the stop function
WireStep(s) ==
    /\ pc[s] = "wiring"
    /\ LET step == Head(toWire(s))
           last == Len(toWire(s)) = 1
           throws == step = "createMediaStreamSource" /\ ~stream[s].audio
       IN  /\ workletNode' = [workletNode EXCEPT ![s] =
                 CASE step = "new AudioWorkletNode" -> [@ EXCEPT !.made = TRUE]
                   [] step = "port.onmessage" -> [@ EXCEPT !.onmessage = TRUE]
                   [] step = "workletNode.connect" -> [@ EXCEPT !.out = TRUE]
                   [] OTHER -> @]
           /\ source' = [source EXCEPT ![s] =
                 CASE throws -> @
                   [] step = "createMediaStreamSource" /\ ~throws -> [@ EXCEPT !.made = TRUE]
                   [] step = "source.connect" -> [@ EXCEPT !.out = TRUE]
                   [] OTHER -> @]
           /\ pc' = [pc EXCEPT ![s] =
                 IF throws THEN "failed" ELSE IF last THEN "returned" ELSE @]
           /\ result' = [result EXCEPT ![s] =
                 IF throws THEN "InvalidStateError" ELSE IF last THEN "resolved" ELSE @]
    /\ UNCHANGED <<options, bufferSize, from_display, stream, audioContext, sampleRate,
                   workletUrl, buffer, port, sink, blocks, posted, idle, released, stops>>

\* the options of the call in SpecWire
WireOptions == {[bufferSize |-> 1], [bufferSize |-> 2, fromDisplay |-> TRUE]}

\* the steps of Next with the wiring taken one statement at a time, so that
\* process calls of the rendering thread fall between the statements
NextWire ==
    \E s \in Sessions :
        \/ \E o \in WireOptions : Start(s, o)
        \/ GetMediaRejected(s, "NotAllowedError")
        \/ \E audio \in BOOLEAN, rate \in SampleRates : GetMediaResolved(s, audio, rate)
        \/ AddModuleRejected(s)
        \/ ModuleAdded(s)
        \/ WireStep(s)
        \/ \E n \in {0} \cup SmallLens :
               /\ Len(Flatten(blocks[s])) + n <= SmallSamples
               /\ Process(s, n)
        \/ Deliver(s)
        \/ stops[s] < SmallStops /\ Stop(s)
        \/ ContextClosed(s)

SpecWire == Init /\ [][NextWire]_vars

\* ------------------------------------------------------------ properties

IsPrefix(a, b) == Len(a) <= Len(b) /\ SubSeq(b, 1, Len(a)) = a

\* the samples of a sequence of frames, concatenated in order
SamplesOf(frames) == Flatten([i \in DOMAIN frames |-> frames[i].samples])

BlockLens(s) == [i \in DOMAIN blocks[s] |-> Len(blocks[s][i])]

\* C1: with a positive frame size, every frame the processor posts and every
\* frame the callback receives has exactly bufferSize samples, and the
\* bufferLength the callback receives equals bufferSize.
C1_FrameSize ==
    \A s \in Sessions :
        bufferSize[s] > 0 =>
            /\ \A i \in DOMAIN posted[s] : Len(posted[s][i].samples) = bufferSize[s]
            /\ \A i \in DOMAIN sink[s] :
                   /\ Len(sink[s][i].samples) = bufferSize[s]
                   /\ sink[s][i].bufferLength = bufferSize[s]

\* C1 witness: two frames of size 3 reached the callback, cut from blocks both
\* shorter and longer than the frame size.
C1_Witness ==
    \E s \in Sessions :
        /\ bufferSize[s] = 3
        /\ Len(sink[s]) >= 2
        /\ \E i \in DOMAIN blocks[s] : Len(blocks[s][i]) > 3
        /\ \E i \in DOMAIN blocks[s] : Len(blocks[s][i]) \in 1..2

\* C2: before teardown, the samples of the frames emitted so far, concatenated
\* in emission order, are a prefix of the input blocks received so far,
\* concatenated in arrival order.
C2_EmittedIsPrefix ==
    \A s \in Sessions :
        stops[s] = 0 => IsPrefix(SamplesOf(posted[s]), Flatten(blocks[s]))

\* C2 witness: before teardown two frames were emitted, one of them spanning
\* two blocks, and a remainder is pending.
C2_Witness ==
    \E s \in Sessions :
        /\ stops[s] = 0
        /\ bufferSize[s] = 3
        /\ Len(posted[s]) = 2
        /\ BlockLens(s) = <<2, 2, 3>>
        /\ buffer[s] # <<>>

\* C3: with a positive frame size, whenever a process call has returned the
\* buffer holds strictly fewer than bufferSize samples.
C3_BufferBelowFrameSize ==
    \A s \in Sessions :
        bufferSize[s] > 0 => Len(buffer[s]) < bufferSize[s]

\* C4: one block of at least twice the frame size arriving on an empty buffer
\* emits floor(len / bufferSize) frames in that call and leaves
\* len mod bufferSize samples pending.
C4_OversizedBlockSplit ==
    \A s \in Sessions :
        ( /\ bufferSize[s] > 0
          /\ Len(blocks[s]) = 1
          /\ Len(blocks[s][1]) >= 2 * bufferSize[s] ) =>
            /\ Len(posted[s]) = Len(blocks[s][1]) \div bufferSize[s]
            /\ Len(buffer[s]) = Len(blocks[s][1]) % bufferSize[s]

\* C5: a process call whose block leaves the accumulated total below the frame
\* size posts nothing and grows the buffer by the block length; a call whose
\* block brings the total to exactly the frame size posts one frame and leaves
\* the buffer empty.
C5_UndersizedAccumulation ==
    [][ \A s \in Sessions :
          (bufferSize[s] > 0 /\ Len(blocks'[s]) = Len(blocks[s]) + 1) =>
              LET n == Len(blocks'[s][Len(blocks'[s])])
                  total == Len(buffer[s]) + n
              IN  /\ total < bufferSize[s] =>
                        /\ posted'[s] = posted[s]
                        /\ Len(buffer'[s]) = Len(buffer[s]) + n
                  /\ total = bufferSize[s] =>
                        /\ Len(posted'[s]) = Len(posted[s]) + 1
                        /\ buffer'[s] = <<>>
      ]_vars

\* C5 witness: frame size 7; blocks of 2, 2, 2 samples left 6 pending and no
\* frame, then a block of 1 sample gave exactly one frame and nothing pending.
C5_Witness ==
    \E s \in Sessions :
        /\ bufferSize[s] = 7
        /\ BlockLens(s) = <<2, 2, 2, 1>>
        /\ Len(posted[s]) = 1
        /\ buffer[s] = <<>>

\* the teardown order of the specification
TeardownOrder ==
    << "workletNode.disconnect", "source.disconnect", "audioContext.close",
       "URL.revokeObjectURL", "track.stop" >>

\* C6: nothing is released before stop; the first stop call performs the five
\* release calls in the teardown order, and when it has returned the node and
\* the source are disconnected, the context is closed or closing, the blob URL
\* is revoked and the tracks are ended.
C6_TeardownOrder ==
    \A s \in Sessions :
        /\ stops[s] = 0 => released[s] = <<>>
        /\ stops[s] >= 1 =>
              /\ SubSeq(released[s], 1, 5) = TeardownOrder
              /\ ~workletNode[s].out
              /\ ~source[s].out
              /\ audioContext[s] \in {"closing", "closed"}
              /\ workletUrl[s] = "revoked"
              /\ stream[s].tracks = "ended"

\* C6 witness: a streaming session that received samples was stopped once.
C6_Witness ==
    \E s \in Sessions :
        /\ stops[s] = 1
        /\ Len(released[s]) = 5
        /\ blocks[s] # <<>>

Count(seq, x) == Cardinality({i \in DOMAIN seq : seq[i] = x})

\* C7: over any number of stop calls, each release call is performed at most
\* once.
C7_ReleasedAtMostOnce ==
    \A s \in Sessions :
        \A call \in Range(TeardownOrder) : Count(released[s], call) <= 1

\* C8: when stop is called with a partial remainder pending, neither that call
\* nor any later step posts a frame or changes the remainder.
C8_StopDiscardsRemainder ==
    [][ \A s \in Sessions :
          ( /\ stops'[s] >= 1
            /\ 0 < Len(buffer[s])
            /\ Len(buffer[s]) < bufferSize[s] ) =>
              /\ posted'[s] = posted[s]
              /\ buffer'[s] = buffer[s]
      ]_vars

\* C8 witness: stop was called with a partial remainder pending, process ran
\* once more afterwards, the context is closed, and the remainder is still there.
C8_Witness ==
    \E s \in Sessions :
        /\ stops[s] >= 1
        /\ idle[s] >= 1
        /\ audioContext[s] = "closed"
        /\ bufferSize[s] = 3
        /\ Len(buffer[s]) = 2
        /\ Len(posted[s]) = 1

\* C9: when the start call has failed, no acquired resource is left
\* unreleased: the tracks are not live, the context is not running and the
\* blob URL is not left registered.
C9_FailureReleasesAll ==
    \A s \in Sessions :
        pc[s] = "failed" =>
            /\ stream[s].tracks # "live"
            /\ audioContext[s] # "running"
            /\ workletUrl[s] # "created"

\* C10: a call configured with bufferSize <= 0 acquires no capture resource,
\* never resolves, and its processor never runs.
C10_NonPositiveRejected ==
    \A s \in Sessions :
        ("bufferSize" \in DOMAIN options[s] /\ options[s].bufferSize <= 0) =>
            /\ stream[s].tracks = "none"
            /\ audioContext[s] = "none"
            /\ result[s] # "resolved"
            /\ blocks[s] = <<>>

\* C11: when the user denies the capture prompt the call has failed, no stop
\* handle exists (stop was never called), no stream, audio context, blob URL,
\* worklet node or source was created, and the callback was never invoked.
C11_DenialFailsCleanly ==
    \A s \in Sessions :
        result[s] = "NotAllowedError" =>
            /\ pc[s] = "failed"
            /\ stops[s] = 0
            /\ stream[s] = NoStream
            /\ audioContext[s] = "none"
            /\ workletUrl[s] = "none"
            /\ workletNode[s] = NoNode
            /\ source[s] = NoSource
            /\ posted[s] = <<>>
            /\ sink[s] = <<>>

\* C11 witness: a display capture request was denied by the user.
C11_Witness ==
    \E s \in Sessions :
        /\ result[s] = "NotAllowedError"
        /\ from_display[s]
        /\ pc[s] = "failed"

\* C12: a display capture whose granted stream has no audio track never
\* resolves to a stop handle: the call is still awaiting addModule or it has
\* failed with an error, and no frame is ever posted or delivered.
C12_NoAudioTrackFails ==
    \A s \in Sessions :
        (from_display[s] /\ stream[s].tracks # "none" /\ ~stream[s].audio) =>
            /\ pc[s] \in {"addModule", "failed"}
            /\ result[s] # "resolved"
            /\ pc[s] = "failed" => result[s] \in {"AbortError", "InvalidStateError"}
            /\ stops[s] = 0
            /\ ~source[s].made
            /\ posted[s] = <<>>
            /\ sink[s] = <<>>

\* C12 witness: addModule resolved for a display stream without an audio
\* track and the call failed when it created the source.
C12_Witness ==
    \E s \in Sessions :
        /\ from_display[s]
        /\ ~stream[s].audio
        /\ workletNode[s].made
        /\ pc[s] = "failed"
        /\ result[s] = "InvalidStateError"

\* C13: the frames the callback has received are, in order and one for one,
\* the first frames the processor posted, and the frames still in flight are
\* the rest of them in posting order: no frame is delivered twice, skipped or
\* overtaken.
C13_DeliveredInOrder ==
    \A s \in Sessions :
        /\ Len(sink[s]) + Len(port[s]) = Len(posted[s])
        /\ \A i \in DOMAIN sink[s] :
               /\ sink[s][i].samples = posted[s][i].samples
               /\ sink[s][i].sampleRate = posted[s][i].sampleRate
        /\ port[s] = SubSeq(posted[s], Len(sink[s]) + 1, Len(posted[s]))

\* C13 witness: two frames were delivered while two more were waiting in the
\* port.
C13_Witness ==
    \E s \in Sessions :
        /\ bufferSize[s] > 0
        /\ Len(sink[s]) = 2
        /\ Len(port[s]) = 2

\* the resources and the data path of session t
SessionState(t) ==
    <<stream[t], audioContext[t], workletUrl[t], workletNode[t], source[t],
      buffer[t], port[t], sink[t], posted[t], blocks[t]>>

\* C14 (state part): every sample in a session's buffer, in its posted frames
\* and in the frames its callback received comes from that session's own
\* blocks and from no block of the other session, and while one session is
\* stopped a session that was started and not stopped keeps all its resources.
C14_Isolated ==
    \A s \in Sessions : \A t \in Sessions \ {s} :
        /\ \A x \in Range(buffer[s]) \cup Range(SamplesOf(posted[s]))
                        \cup Range(SamplesOf(sink[s])) :
               /\ x \in Range(Flatten(blocks[s]))
               /\ x \notin Range(Flatten(blocks[t]))
        /\ IsPrefix(SamplesOf(sink[s]), Flatten(blocks[s]))
        /\ (stops[s] >= 1 /\ stops[t] = 0 /\ pc[t] = "returned") =>
               /\ stream[t].tracks = "live"
               /\ audioContext[t] = "running"
               /\ workletUrl[t] = "created"
               /\ workletNode[t] = [made |-> TRUE, out |-> TRUE, onmessage |-> TRUE]
               /\ source[t] = [made |-> TRUE, out |-> TRUE]

\* C14 (step part): a stop call of one session changes nothing of the other
\* session.
C14_StopIsLocal ==
    \A s \in Sessions : \A t \in Sessions \ {s} :
        stops'[s] > stops[s] => SessionState(t)' = SessionState(t)

\* C14: two concurrent sessions do not interfere: each session's frames hold
\* only its own samples, and stopping one session releases nothing of the other
\* and leaves the other's data path intact.
C14_NoInterference == []C14_Isolated /\ [][C14_StopIsLocal]_vars

\* C14 witness: both sessions delivered frames, session 1 was stopped and its
\* context closed, and session 2 is still streaming with frames in flight.
C14_Witness ==
    /\ stops[1] >= 1
    /\ audioContext[1] = "closed"
    /\ sink[1] # <<>>
    /\ pc[2] = "returned"
    /\ stops[2] = 0
    /\ sink[2] # <<>>
    /\ port[2] # <<>>
    /\ buffer[2] # <<>>

\* C15: with a positive frame size, a process call on a zero-length block
\* posts no frame and leaves the buffer unchanged, whatever blocks came before.
C15_EmptyBlockIsNoOp ==
    [][ \A s \in Sessions :
          ( /\ bufferSize[s] > 0
            /\ Len(blocks'[s]) = Len(blocks[s]) + 1
            /\ blocks'[s][Len(blocks'[s])] = <<>> ) =>
              /\ posted'[s] = posted[s]
              /\ buffer'[s] = buffer[s]
      ]_vars

\* C16: with a positive frame size, once a stop call has returned the callback
\* is never invoked again, also not for frames posted before the stop call.
C16_NoDeliveryAfterStop ==
    [][ \A s \in Sessions :
          (bufferSize[s] > 0 /\ stops[s] >= 1) => sink'[s] = sink[s]
      ]_vars

\* C17: with a positive frame size, after every process call the number of
\* samples received so far equals bufferSize times the number of frames posted
\* so far plus the number of samples in the buffer.
C17_SampleConservation ==
    \A s \in Sessions :
        bufferSize[s] > 0 =>
            Len(Flatten(blocks[s])) = bufferSize[s] * Len(posted[s]) + Len(buffer[s])

\* C17 witness: frame size 2; an oversized block and two more blocks gave
\* three frames and a remainder.
C17_Witness ==
    \E s \in Sessions :
        /\ bufferSize[s] = 2
        /\ BlockLens(s) = <<5, 1, 1>>
        /\ Len(posted[s]) = 3
        /\ Len(buffer[s]) = 1

\* C18: whenever the source is connected to the node, and whenever the
\* processor has posted a frame, the message handler is already installed.
C18_HandlerBeforeConnect ==
    \A s \in Sessions :
        (source[s].out \/ posted[s] # <<>>) => workletNode[s].onmessage

\* C18 witness: the rendering thread called process during the wiring, before
\* the source was connected, and after the call returned a frame was posted
\* and delivered.
C18_Witness ==
    \E s \in Sessions :
        /\ pc[s] = "returned"
        /\ stops[s] = 0
        /\ idle[s] >= 1
        /\ sink[s] # <<>>

====
